---- MODULE Spec2Model ----
(***************************************************************************)
(* A model of src/environment.py: the gym environment Market and its       *)
(* action space OrderSpace.                                                *)
(*                                                                         *)
(* Numbers.  Prices and quantities are naturals.  A float drawn from       *)
(* [0, 1) is a raw draw u in 0..Resolution-1 standing for u/Resolution,    *)
(* and the amount and the price of a sampled action are kept multiplied    *)
(* by Resolution, so that 1.0 is Resolution and max_amount is              *)
(* max_amount*Resolution.                                                  *)
(*                                                                         *)
(* Arrays.  A two-dimensional numpy array is a sequence of rows, each row  *)
(* a sequence of numbers.  A value that is not set yet (an attribute the   *)
(* constructor has not assigned) is the empty sequence, or -1 for a        *)
(* generator.                                                              *)
(***************************************************************************)
EXTENDS Integers, Sequences, FiniteSets

VARIABLES
    pc,           \* "new" before Market(...), then "ready" or "failed"
    symbol,       \* self.symbol
    max_amount,   \* self.max_amount, also self.action_space.max_amount
    state,        \* self.state
    np_random,    \* self.np_random: the seed its generator was made from
    calls,        \* the first calls made on the exchange and on seeding, in order
    order_book,   \* what the exchange answered to the latest fetch_order_book
    last_call,    \* the operation called last, with its mode for render
    result,       \* how it ended: what it returned or raised
    global_rng,   \* the state of the module-level generator numpy.random
    action,       \* the attributes sample() left on the action space
    np_random2,   \* a second run of the program: its self.np_random,
    global_rng2,  \*   its numpy.random
    action2       \*   and its latest sample

vars == <<pc, symbol, max_amount, state, np_random, calls, order_book,
          last_call, result, global_rng, action, np_random2, global_rng2,
          action2>>

---------------------------------------------------------------------------
(* Bounds *)

\* An order book holds at most MaxOrders orders, bids and asks together.
MaxOrders == 3
\* Prices are 0..MaxPrice.
MaxPrice == 2
\* Seeds are 0..MaxSeed.
MaxSeed == 1
\* A float in [0, 1) is one of Resolution values.
Resolution == 3
\* The log keeps the first MaxCalls calls.
MaxCalls == 4

Prices == 0..MaxPrice
Quantities == {0, 5}
Orders == {<<p, q>> : p \in Prices, q \in Quantities}
Seeds == 0..MaxSeed
Symbols == {"BTC/USD", "ETH/BTC"}

Book(b, a) == [bids |-> b, asks |-> a]

\* Every order book of at most MaxOrders orders, an empty side included.
Depths == {d \in (0..MaxOrders) \X (0..MaxOrders) : d[1] + d[2] <= MaxOrders}
OrderBooks ==
    UNION {{Book(b, a) : b \in [1..d[1] -> Orders], a \in [1..d[2] -> Orders]} :
           d \in Depths}

\* The order books the exchange of the stateful specifications answers with.
ExchangeBids == {<<>>, <<<<3, 5>>>>, <<<<3, 5>>, <<2, 1>>>>}
ExchangeAsks == {<<>>, <<<<4, 2>>>>, <<<<4, 2>>, <<6, 1>>>>}
ExchangeBooks == {Book(b, a) : b \in ExchangeBids, a \in ExchangeAsks}

\* What the exchange does with a call: answer it or raise.
NetOutcomes == {"ok", "load_markets raises", "fetch_order_book raises"}

NoBook == Book(<<>>, <<>>)
Unset == <<>>
NoGenerator == 0 - 1
NoSeed == 0 - 1
None == <<>>

---------------------------------------------------------------------------
(* numpy *)

Reverse(s) == [i \in 1..Len(s) |-> s[Len(s) + 1 - i]]

\* np.array of a list of rows; the empty list gives a one-dimensional array.
Ndim(listOfRows) == IF Len(listOfRows) = 0 THEN 1 ELSE 2

\* k * np.ones((n, m))
Ones(k, n, m) == [i \in 1..n |-> [j \in 1..m |-> k]]

\* np.concatenate((A, B), axis=1) of two arrays of as many rows
ConcatColumns(A, B) == [i \in 1..Len(A) |-> A[i] \o B[i]]

Transpose(A) == [j \in 1..Len(A[1]) |-> [i \in 1..Len(A) |-> A[i][j]]]

\* np.flip(A, 0), which is np.flipud(A), and np.flip(A, 1)
FlipRows(A) == Reverse(A)
FlipColumns(A) == [i \in 1..Len(A) |-> Reverse(A[i])]

\* np.rot90(A, k)
Rot90(A, k) ==
    CASE k % 4 = 0 -> A
      [] k % 4 = 1 -> Transpose(FlipColumns(A))
      [] k % 4 = 2 -> FlipColumns(FlipRows(A))
      [] k % 4 = 3 -> FlipColumns(Transpose(A))

---------------------------------------------------------------------------
(* Market._reset: the reshaping of an order book *)

\* np.concatenate raises unless both arrays have two dimensions.
Reshapable(ob) == Ndim(ob.bids) = 2 /\ Ndim(ob.asks) = 2

Reshape_KeepBidsUnflipped(ob) ==
    LET bids_with_sign == ConcatColumns(ob.bids, Ones(-1, Len(ob.bids), 1))
        asks_with_sign == ConcatColumns(ob.asks, Ones(1, Len(ob.asks), 1))
    IN  ConcatColumns(Rot90(bids_with_sign, 3), Rot90(asks_with_sign, 1))

Reshape_RotateBidsLikeAsks(ob) ==
    LET bids_with_sign == ConcatColumns(ob.bids, Ones(-1, Len(ob.bids), 1))
        asks_with_sign == ConcatColumns(ob.asks, Ones(1, Len(ob.asks), 1))
    IN  ConcatColumns(Rot90(bids_with_sign, 1), Rot90(asks_with_sign, 1))

Reshape(ob) ==
    LET bids == ob.bids
        asks == ob.asks
        bid_sign == Ones(-1, Len(ob.bids), 1)
        ask_sign == Ones(1, Len(ob.asks), 1)
        bids_with_sign == ConcatColumns(bids, bid_sign)
        asks_with_sign == ConcatColumns(asks, ask_sign)
        bids_rotated == FlipRows(Rot90(bids_with_sign, 3))
        asks_rotated == Rot90(asks_with_sign, 1)
    IN  ConcatColumns(bids_rotated, asks_rotated)

---------------------------------------------------------------------------
(* The methods, as functions of the object and their arguments.  Each      *)
(* gives the object as the call leaves it, the exception raised ("" when   *)
(* none) and the value returned.                                          *)

Self == [symbol |-> symbol, max_amount |-> max_amount, state |-> state,
         np_random |-> np_random, calls |-> calls]

Returns(self, value) == [self |-> self, exc |-> "", value |-> value]
Raises(self, exc) == [self |-> self, exc |-> exc, value |-> None]

Logged(self, call) ==
    IF Len(self.calls) < MaxCalls THEN [self EXCEPT !.calls = Append(@, call)]
    ELSE self

\* self.max_amount = 1.0
MaxAmountPerTrade == 1

\* Market._seed(seed): seeding.np_random makes a generator from the seed, or
\* from a seed of its own choosing (entropy) when seed is None.
_seed(self, seed, entropy) ==
    LET used == IF seed = NoSeed THEN entropy ELSE seed
    IN  Returns([Logged(self, <<"seed">>) EXCEPT !.np_random = used], <<used>>)

\* Market._reset(), the exchange answering fetch_order_book with ob.
_reset(self, ob, net) ==
    LET fetched == Logged(self, <<"fetch_order_book", self.symbol>>)
    IN  IF net = "fetch_order_book raises" THEN Raises(fetched, "ExchangeError")
        ELSE IF ~Reshapable(ob) THEN Raises(fetched, "ValueError")
        ELSE Returns([fetched EXCEPT !.state = Reshape(ob)], Reshape(ob))

\* Market._step(action)
_step(self, a) == Returns(self, None)

\* Market._close()
_close(self) == Returns(self, None)

Modes == {"human", "ansi", "rgb_array"}

_render_HumanDoesNothing(self, mode) ==
    IF mode = "ansi" THEN Raises(self, "NotImplementedError")
    ELSE IF mode = "human" THEN Returns(self, None)
    ELSE Raises(self, "UnsupportedMode")

\* Market._render(mode)
_render(self, mode) ==
    IF mode = "ansi" THEN Raises(self, "NotImplementedError")
    ELSE IF mode = "human" THEN Raises(self, "NotImplementedError")
    ELSE Raises(self, "UnsupportedMode")

\* OrderSpace.contains(x), to_jsonable(sample_n), from_jsonable(sample_n)
contains(self, x) == Raises(self, "NotImplementedError")
to_jsonable(self, sample_n) == Raises(self, "NotImplementedError")
from_jsonable(self, sample_n) == Raises(self, "NotImplementedError")

__init___ResetBeforeSeed(self, sym, ob, entropy, net) ==
    LET loaded == Logged([self EXCEPT !.symbol = sym], <<"load_markets">>)
        sized == [loaded EXCEPT !.max_amount = MaxAmountPerTrade]
        reset == _reset(sized, ob, net)
    IN  IF net = "load_markets raises" THEN Raises(loaded, "ExchangeError")
        ELSE IF reset.exc # "" THEN reset
        ELSE Returns(_seed(reset.self, NoSeed, entropy).self, None)

\* Market.__init__(exchange, symbol)
__init__(self, sym, ob, entropy, net) ==
    LET loaded == Logged([self EXCEPT !.symbol = sym], <<"load_markets">>)
        sized == [loaded EXCEPT !.max_amount = MaxAmountPerTrade]
        seeded == _seed(sized, NoSeed, entropy)
        reset == _reset(seeded.self, ob, net)
    IN  IF net = "load_markets raises" THEN Raises(loaded, "ExchangeError")
        ELSE IF reset.exc # "" THEN reset
        ELSE Returns(reset.self, None)

---------------------------------------------------------------------------
(* OrderSpace.sample and numpy.random *)

\* The generator's states.  A state fixes the next five raw draws: three
\* of two values (np.random.choice of two) and two of Resolution values.
RngStates == 0..(8 * Resolution * Resolution - 1)
Advance(g) == (g + 1) % (8 * Resolution * Resolution)
Draws(g) == <<g % 2, (g \div 2) % 2, (g \div 4) % 2,
              (g \div 8) % Resolution, (g \div (8 * Resolution)) % Resolution>>

\* np.random.choice(options), np.random.uniform(low, high) and
\* np.random.random_sample() on a raw draw; floats are times Resolution.
Choice(options, u) == options[u + 1]
Uniform(low, high, u) == low * Resolution + (high - low) * u
RandomSample(u) == u

side_sign(side) == IF side = "buy" THEN -1 ELSE 1

sample_PriceIsTheDraw(max_amt, g) ==
    LET u == Draws(g)
        side_ == Choice(<<"buy", "sell">>, u[3])
    IN  <<Choice(<<TRUE, FALSE>>, u[1]), Choice(<<"market", "limit">>, u[2]),
          side_, Uniform(0, max_amt, u[4]), side_sign(side_) * RandomSample(u[5])>>

\* OrderSpace.sample(): [place_order, type, side, amount, price]
sample(max_amt, g) ==
    LET u == Draws(g)
        place_order_ == Choice(<<TRUE, FALSE>>, u[1])
        type_ == Choice(<<"market", "limit">>, u[2])
        side_ == Choice(<<"buy", "sell">>, u[3])
        amount_ == Uniform(0, max_amt, u[4])
        price_ == side_sign(side_) * (1 * Resolution - RandomSample(u[5]))
    IN  <<place_order_, type_, side_, amount_, price_>>

\* The actions given to step, contains, to_jsonable and from_jsonable.
SomeActions == {sample(MaxAmountPerTrade, g) : g \in {0, 8 * Resolution * Resolution - 1}}

---------------------------------------------------------------------------
(* The object before and after construction *)

Blank == [symbol |-> "", max_amount |-> 0, state |-> Unset,
          np_random |-> NoGenerator, calls |-> <<>>]

NoResult == [exc |-> "", value |-> None]

\* The exchange answered the fetch_order_book of a call with this outcome.
Answered(net) == net = "ok"

\* The object's attributes, the call and how it ended, after outcome o.
Apply(o, call) ==
    /\ symbol' = o.self.symbol
    /\ max_amount' = o.self.max_amount
    /\ state' = o.self.state
    /\ np_random' = o.self.np_random
    /\ calls' = o.self.calls
    /\ last_call' = call
    /\ result' = [exc |-> o.exc, value |-> o.value]

\* The state Market(exchange, sym) leaves, the exchange holding ob.
Constructed(sym, ob, entropy) ==
    LET o == __init__(Blank, sym, ob, entropy, "ok")
    IN  /\ pc = (IF o.exc = "" THEN "ready" ELSE "failed")
        /\ symbol = o.self.symbol
        /\ max_amount = o.self.max_amount
        /\ state = o.self.state
        /\ np_random = o.self.np_random
        /\ calls = o.self.calls
        /\ order_book = ob
        /\ last_call = <<"__init__">>
        /\ result = [exc |-> o.exc, value |-> o.value]

Rng == <<global_rng, action>>
Twin == <<np_random2, global_rng2, action2>>

---------------------------------------------------------------------------
(* Spec: a Market from its construction on, the exchange answering with    *)
(* any of ExchangeBooks or raising.                                        *)

Init ==
    /\ pc = "new"
    /\ symbol = Blank.symbol
    /\ max_amount = Blank.max_amount
    /\ state = Blank.state
    /\ np_random = Blank.np_random
    /\ calls = Blank.calls
    /\ order_book = NoBook
    /\ last_call = <<>>
    /\ result = NoResult
    /\ global_rng = 0
    /\ action = Unset
    /\ np_random2 = NoGenerator
    /\ global_rng2 = 0
    /\ action2 = Unset

\* Market(exchange, symbol)
Construct ==
    /\ pc = "new"
    /\ \E sym \in Symbols, ob \in ExchangeBooks, entropy \in Seeds,
          net \in NetOutcomes :
          LET o == __init__(Self, sym, ob, entropy, net)
          IN  /\ Apply(o, <<"__init__">>)
              /\ pc' = IF o.exc = "" THEN "ready" ELSE "failed"
              /\ order_book' = IF Answered(net) THEN ob ELSE order_book
    /\ UNCHANGED <<Rng, Twin>>

\* env.reset()
Reset ==
    /\ pc = "ready"
    /\ \E ob \in ExchangeBooks, net \in {"ok", "fetch_order_book raises"} :
          /\ Apply(_reset(Self, ob, net), <<"reset">>)
          /\ order_book' = IF Answered(net) THEN ob ELSE order_book
    /\ UNCHANGED <<pc, Rng, Twin>>

\* env.step(action), for an action of the action space
Step ==
    /\ pc = "ready"
    /\ \E a \in SomeActions : Apply(_step(Self, a), <<"step">>)
    /\ UNCHANGED <<pc, order_book, Rng, Twin>>

\* env.seed(seed), seed None included
Seed ==
    /\ pc = "ready"
    /\ \E seed \in Seeds \cup {NoSeed}, entropy \in Seeds :
          Apply(_seed(Self, seed, entropy), <<"seed">>)
    /\ UNCHANGED <<pc, order_book, Rng, Twin>>

\* env.render(mode)
Render ==
    /\ pc = "ready"
    /\ \E mode \in Modes : Apply(_render(Self, mode), <<"render", mode>>)
    /\ UNCHANGED <<pc, order_book, Rng, Twin>>

\* env.close()
Close ==
    /\ pc = "ready"
    /\ Apply(_close(Self), <<"close">>)
    /\ UNCHANGED <<pc, order_book, Rng, Twin>>

\* env.action_space.contains(x)
Contains ==
    /\ pc = "ready"
    /\ \E x \in SomeActions : Apply(contains(Self, x), <<"contains">>)
    /\ UNCHANGED <<pc, order_book, Rng, Twin>>

\* env.action_space.to_jsonable(sample_n)
ToJsonable ==
    /\ pc = "ready"
    /\ \E x \in SomeActions : Apply(to_jsonable(Self, <<x>>), <<"to_jsonable">>)
    /\ UNCHANGED <<pc, order_book, Rng, Twin>>

\* env.action_space.from_jsonable(sample_n)
FromJsonable ==
    /\ pc = "ready"
    /\ \E x \in SomeActions : Apply(from_jsonable(Self, <<x>>), <<"from_jsonable">>)
    /\ UNCHANGED <<pc, order_book, Rng, Twin>>

Next ==
    \/ Construct
    \/ Reset
    \/ Step
    \/ Seed
    \/ Render
    \/ Close
    \/ Contains
    \/ ToJsonable
    \/ FromJsonable

Spec == Init /\ [][Next]_vars

---------------------------------------------------------------------------
(* SpecReshape: the reshaping on every order book.  The exchange holds one *)
(* order book of OrderBooks throughout; the Market is constructed on it    *)
(* and then reset.                                                         *)

InitReshape ==
    /\ \E ob \in OrderBooks : Constructed("BTC/USD", ob, 0)
    /\ global_rng = 0
    /\ action = Unset
    /\ np_random2 = NoGenerator
    /\ global_rng2 = 0
    /\ action2 = Unset

\* env.reset(), the exchange answering with the order book it holds
ResetHeld ==
    /\ pc = "ready"
    /\ Apply(_reset(Self, order_book, "ok"), <<"reset">>)
    /\ UNCHANGED <<pc, order_book, Rng, Twin>>

NextReshape == ResetHeld

SpecReshape == InitReshape /\ [][NextReshape]_vars

---------------------------------------------------------------------------
(* SpecSample: sampling the action space of a constructed Market, the      *)
(* generator numpy.random in any state.                                    *)

FirstBook == Book(<<<<3, 5>>>>, <<<<4, 2>>>>)

InitSample ==
    /\ \E entropy \in Seeds : Constructed("BTC/USD", FirstBook, entropy)
    /\ global_rng \in RngStates
    /\ action = Unset
    /\ np_random2 = NoGenerator
    /\ global_rng2 = 0
    /\ action2 = Unset

\* env.action_space.sample()
Sample ==
    /\ pc = "ready"
    /\ action' = sample(max_amount, global_rng)
    /\ global_rng' = Advance(global_rng)
    /\ last_call' = <<"sample">>
    /\ result' = [exc |-> "", value |-> None]
    /\ UNCHANGED <<pc, symbol, max_amount, state, np_random, calls,
                   order_book, Twin>>

NextSample ==
    \/ Sample
    \/ Seed

SpecSample == InitSample /\ [][NextSample]_vars

---------------------------------------------------------------------------
(* SpecTwin: two runs of the program, each with a Market constructed on    *)
(* the same order book and each with its own numpy.random, driven by the   *)
(* same calls.                                                             *)

InitTwin ==
    /\ \E entropy \in Seeds : Constructed("BTC/USD", FirstBook, entropy)
    /\ global_rng \in RngStates
    /\ action = Unset
    /\ np_random2 \in Seeds
    /\ global_rng2 \in RngStates
    /\ action2 = Unset

\* env.seed(seed) in both runs
SeedBoth ==
    /\ pc = "ready"
    /\ \E seed \in Seeds \cup {NoSeed}, entropy \in Seeds, entropy2 \in Seeds :
          /\ Apply(_seed(Self, seed, entropy), <<"seed">>)
          /\ np_random2' =
                 _seed([Self EXCEPT !.np_random = np_random2], seed, entropy2)
                     .self.np_random
    /\ UNCHANGED <<pc, order_book, Rng, global_rng2, action2>>

\* env.action_space.sample() in both runs
SampleBoth ==
    /\ pc = "ready"
    /\ action' = sample(max_amount, global_rng)
    /\ global_rng' = Advance(global_rng)
    /\ action2' = sample(max_amount, global_rng2)
    /\ global_rng2' = Advance(global_rng2)
    /\ last_call' = <<"sample">>
    /\ result' = [exc |-> "", value |-> None]
    /\ UNCHANGED <<pc, symbol, max_amount, state, np_random, calls,
                   order_book, np_random2>>

NextTwin ==
    \/ SeedBoth
    \/ SampleBoth

SpecTwin == InitTwin /\ [][NextTwin]_vars

---------------------------------------------------------------------------
(* Reading an observation *)

NBids(ob) == Len(ob.bids)
NAsks(ob) == Len(ob.asks)

\* The orders of a book, numbered: the bids, then the asks.
OrderNo(ob, k) == IF k <= NBids(ob) THEN ob.bids[k] ELSE ob.asks[k - NBids(ob)]
SignNo(ob, k) == IF k <= NBids(ob) THEN -1 ELSE 1

\* The ways to lay the three values of an entry out: a[1] is the row of the
\* side-sign, a[2] that of the price, a[3] that of the quantity.
Layouts == {a \in [1..3 -> 1..3] : \A x, y \in 1..3 : a[x] = a[y] => x = y}

\* Entry (column) j of array s holds order o with its side-sign, under layout a.
Holds(s, a, j, sign, o) ==
    /\ s[a[1]][j] = sign
    /\ s[a[2]][j] = o[1]
    /\ s[a[3]][j] = o[2]

\* Entry j of array s read under layout a, and order k of ob with its sign:
\* <<side-sign, price, quantity>>.
EntryUnder(s, a, j) == <<s[a[1]][j], s[a[2]][j], s[a[3]][j]>>
Labelled(ob, k) == <<SignNo(ob, k), OrderNo(ob, k)[1], OrderNo(ob, k)[2]>>

\* s has one entry of three values for each order of ob and no other: it has
\* as many entries as ob has orders, and each entry occurs in s as often as
\* it does among the labelled orders of ob (so that entries and orders match
\* one to one).
KeepsEveryOrder(s, ob) ==
    LET n == NBids(ob) + NAsks(ob)
    IN  /\ Len(s) = 3
        /\ \A r \in 1..3 : Len(s[r]) = n
        /\ \E a \in Layouts :
              \A j \in 1..n :
                  Cardinality({k \in 1..n : EntryUnder(s, a, k) = EntryUnder(s, a, j)})
                  = Cardinality({k \in 1..n : Labelled(ob, k) = EntryUnder(s, a, j)})

\* The bids of ob are listed by descending price, its asks by ascending
\* price, and its highest bid is below its lowest ask.
SortedWithSpread(ob) ==
    /\ \A i, j \in 1..NBids(ob) : i < j => ob.bids[i][1] >= ob.bids[j][1]
    /\ \A i, j \in 1..NAsks(ob) : i < j => ob.asks[i][1] <= ob.asks[j][1]
    /\ \A i \in 1..NBids(ob), j \in 1..NAsks(ob) : ob.bids[i][1] < ob.asks[j][1]

\* The order entry j of the array is to hold when the bids come first,
\* reversed, and the asks after them, in their order.
OrderAt(ob, j) ==
    IF j <= NBids(ob) THEN ob.bids[NBids(ob) + 1 - j] ELSE ob.asks[j - NBids(ob)]
SignAt(ob, j) == IF j <= NBids(ob) THEN -1 ELSE 1

\* Box(np.array([0,0.0,0.0]), np.array([np.inf, np.inf, np.inf])): the lower
\* bounds; nothing is above the upper ones.
BoxLow == <<0, 0, 0>>

---------------------------------------------------------------------------
(* The claims *)

\* C1: for an order book of N >= 1 bids and M >= 1 asks, _reset returns and
\* stores an array of exactly N+M entries of three values, every bid
\* labelled -1 and every ask +1, each entry keeping the price and quantity
\* of exactly one order: none dropped, duplicated or mixed with another.
C1_ResetKeepsEveryOrder ==
    (pc = "ready" /\ NBids(order_book) >= 1 /\ NAsks(order_book) >= 1) =>
        /\ KeepsEveryOrder(state, order_book)
        /\ last_call = <<"reset">> => result.exc = "" /\ result.value = state

C1_Witness ==
    /\ pc = "ready"
    /\ last_call = <<"reset">>
    /\ NBids(order_book) = 2
    /\ NAsks(order_book) = 1
    /\ order_book.bids[1][1] # order_book.bids[2][1]
    /\ order_book.bids[1][2] # order_book.bids[2][2]
    /\ order_book.asks[1][1] # order_book.asks[1][2]
    /\ result.value = state

\* C3: for an order book with bids by descending price, asks by ascending
\* price and the highest bid below the lowest ask, the entries of state are
\* in non-decreasing price order, the bids (reversed) before the asks (in
\* their order).
C3_AscendingByPrice ==
    (pc = "ready" /\ SortedWithSpread(order_book)) =>
        LET n == NBids(order_book) + NAsks(order_book)
        IN  /\ Len(state) = 3
            /\ \A r \in 1..3 : Len(state[r]) = n
            /\ \E a \in Layouts :
                  /\ \A j \in 1..n : Holds(state, a, j, SignAt(order_book, j),
                                           OrderAt(order_book, j))
                  /\ \A j, k \in 1..n : j < k => state[a[2]][j] <= state[a[2]][k]

C3_Witness ==
    /\ pc = "ready"
    /\ last_call = <<"reset">>
    /\ SortedWithSpread(order_book)
    /\ NBids(order_book) = 2
    /\ NAsks(order_book) = 1
    /\ order_book.bids[1][1] > order_book.bids[2][1]
    /\ state[3] = <<order_book.bids[2][1], order_book.bids[1][1],
                    order_book.asks[1][1]>>

\* C4: every observation reset returns is in the observation space, the Box
\* from [0, 0, 0] to [inf, inf, inf]: every entry of state has its three
\* values within the bounds, for every order book of at least one bid and
\* one ask with non-negative prices and quantities.
C4_ObservationInBox ==
    (/\ pc = "ready"
     /\ last_call = <<"reset">>
     /\ NBids(order_book) >= 1
     /\ NAsks(order_book) >= 1) =>
        /\ result.value = state
        /\ \A r \in 1..3 : \A j \in 1..Len(state[r]) : state[r][j] >= BoxLow[r]

\* C5: each column of the observation holds one order with its values in the
\* order the observation space declares: the side indicator in {-1, 1}, then
\* the price, then the quantity.
C5_ColumnsAsDeclared ==
    (pc = "ready" /\ last_call = <<"reset">>) =>
        \A j \in 1..Len(state[1]) :
            /\ state[1][j] \in {-1, 1}
            /\ \E k \in 1..(NBids(order_book) + NAsks(order_book)) :
                  /\ state[1][j] = SignNo(order_book, k)
                  /\ state[2][j] = OrderNo(order_book, k)[1]
                  /\ state[3][j] = OrderNo(order_book, k)[2]

\* C2: after any sequence of reset, step, seed, render and close calls on a
\* constructed Market, state is the reshaping of the order book the latest
\* fetch_order_book of a reset returned: reset recomputes it from that order
\* book alone, and step, seed, render and close leave it unchanged.
C2_StateIsLatestBookReshaped ==
    pc = "ready" => KeepsEveryOrder(state, order_book)

C7_SameSeedSameSamples ==
    (/\ pc = "ready"
     /\ \E i \in 4..Len(calls) : calls[i] = <<"seed">>
     /\ np_random = np_random2
     /\ last_call \in {<<"sample">>, <<"seed">>}) =>
        /\ last_call = <<"sample">> => action = action2
        /\ last_call = <<"seed">> => result.value = <<np_random>>

\* C8: _render with mode 'human' or 'ansi', and contains, to_jsonable and
\* from_jsonable with any argument, raise the not-implemented error and leave
\* state, np_random and max_amount as they were.
C8_UnimplementedRaiseAndChangeNothing ==
    [][last_call' \in {<<"render", "human">>, <<"render", "ansi">>, <<"contains">>,
                       <<"to_jsonable">>, <<"from_jsonable">>} =>
           /\ result'.exc = "NotImplementedError"
           /\ state' = state
           /\ np_random' = np_random
           /\ max_amount' = max_amount]_vars

C8_Witness ==
    /\ pc = "ready"
    /\ last_call = <<"render", "human">>
    /\ result.exc = "NotImplementedError"
    /\ state # Unset

\* C9: constructing a Market calls load_markets once, then seeds the
\* generator, then resets once, fetching the order book of the given symbol;
\* after a successful construction np_random and state are defined and
\* max_amount is 1.0.
C9_ConstructionOrder ==
    pc = "ready" =>
        /\ Len(calls) >= 3
        /\ SubSeq(calls, 1, 3) =
               <<<<"load_markets">>, <<"seed">>, <<"fetch_order_book", symbol>>>>
        /\ last_call = <<"__init__">> => Len(calls) = 3
        /\ \A i \in 2..Len(calls) : calls[i] # <<"load_markets">>
        /\ symbol \in Symbols
        /\ np_random \in Seeds
        /\ state # Unset
        /\ max_amount = 1

C9_Witness ==
    /\ pc = "ready"
    /\ last_call = <<"__init__">>
    /\ symbol = "ETH/BTC"
    /\ state = Reshape(order_book)

====
